---- MODULE Spec2Model ----
(***************************************************************************)
(* Model of the caching telemetry accessor (Telemetry) of tessie_mcp and   *)
(* of the Gateway client (TessieClient) it reads through.                  *)
(*                                                                         *)
(* Several caller threads use one Telemetry instance.  A thread performs   *)
(* either a field read (_get_nested -> _fetch_data, under the instance's   *)
(* lock) or one of the specialised reads (get_battery_information, ...),   *)
(* which call the client directly.  Every upstream call goes through       *)
(* TessieClient._make_request with its retry loop.                         *)
(*                                                                         *)
(* A second part follows one caller of the control commands (Control) down *)
(* to the single HTTP attempts of _make_request, and applies the pure      *)
(* helpers (the nested lookup, the compass bucketing) to bounded inputs.   *)
(***************************************************************************)
EXTENDS Integers, FiniteSets, Sequences, TLC

\* ---------------------------------------------------------------- bounds
NumThreads == 3
MaxTicks == 2
MaxFetches == 3
MaxOvertakes == 1
MaxDepth == 2
MaxPath == 2
MaxHeading == 360
MaxText == 3

\* ------------------------------------------------------ program constants
DEFAULT_API_TIMEOUT == 30
MAX_API_RETRIES == 3
RETRY_BACKOFF_FACTOR == 2
HTTP_OK == 200
HTTP_UNAUTHORIZED == 401
HTTP_FORBIDDEN == 403
HTTP_NOT_FOUND == 404
HTTP_RATE_LIMITED == 429
HTTP_SERVER_ERROR == 500
COMPASS_DIRECTIONS == <<"N", "NE", "E", "SE", "S", "SW", "W", "NW">>
DEGREES_PER_DIRECTION == 45
SecondsPerMinute == 60

\* Python's None for _cache (snapshot ids start at 1) and _cache_time.
None == -1

Threads == 1..NumThreads

\* The clock advances in whole minutes, so that a read can happen exactly at
\* fetchedAt + interval as well as before and after it.
TickSeconds == SecondsPerMinute

\* interval is 'realtime' or a number of minutes.
TtlChoices == {1}
Intervals ==
  {[realtime |-> TRUE, minutes |-> 0]} \cup
  {[realtime |-> FALSE, minutes |-> m] : m \in TtlChoices}

FieldRead == "_get_nested"
SpecialReads ==
  {"get_battery_information", "get_battery_health_information",
   "get_location_information", "get_tire_pressure_information",
   "get_vehicle_status"}

\* What one HTTP attempt can come back with: a status code (the body of a
\* 200 on the vehicle list either holds the vehicle with a last_state, the
\* vehicle without last_state, or not the vehicle), a timeout, or another
\* transport failure.
Bodies == {"state", "no_state", "no_vehicle"}
Responses ==
  {[kind |-> "status", code |-> HTTP_OK, body |-> b] : b \in Bodies} \cup
  {[kind |-> "status", code |-> c, body |-> "error"] :
      c \in {HTTP_UNAUTHORIZED, HTTP_FORBIDDEN, HTTP_RATE_LIMITED,
             HTTP_SERVER_ERROR}} \cup
  {[kind |-> "timeout", code |-> 0, body |-> "error"],
   [kind |-> "connection", code |-> 0, body |-> "error"]}

VARIABLES
  interval,     \* Telemetry.interval
  cache,        \* Telemetry._cache: None or the id of the fetched snapshot
  cache_time,   \* Telemetry._cache_time: None or seconds
  lock,         \* Telemetry._lock: 0 when free, else the holding thread
  now,          \* time.time(), in seconds
  pc,           \* position of each thread
  nfetch,       \* vehicle-state requests issued so far (snapshot ids)
  fetchId,      \* id of the vehicle-state request of the thread's read, or 0
  calls,        \* logical Gateway requests issued by the thread's operation
  time_by,      \* id of the refresh that assigned _cache_time last
  saved,        \* _cache and _cache_time when the thread's refresh started
  inflight,     \* id of the refresh in flight when the thread's read began
  waitedReqs,   \* upstream requests others completed while the thread waits
  passedBy,     \* lock acquisitions by others while the thread waits
  returned      \* what the field read ended by the last step gave its caller

VARIABLES
  client,       \* the _make_request call of the command in progress
  control,      \* the control command invoked last and what it gave its caller
  lookup,       \* the nested lookup applied, with its arguments and result
  compass,      \* the heading bucketed, with the directions obtained
  server,       \* the startup step performed, with its input and outcome
  composite     \* the composite read in progress and the snapshots it used

telemetryVars ==
  <<interval, cache, cache_time, lock, now, pc, nfetch, fetchId, calls,
    time_by, saved, inflight, waitedReqs, passedBy, returned>>

callerVars == <<client, control, lookup, compass, server, composite>>

vars == <<interval, cache, cache_time, lock, now, pc, nfetch, fetchId, calls,
          time_by, saved, inflight, waitedReqs, passedBy, returned,
          client, control, lookup, compass, server, composite>>

NoSaved == [cache |-> None, cache_time |-> None]

\* No field read ended in the last step.
NoReturn ==
  [kind |-> "none", err |-> "none", snap |-> 0, fetched |-> 0, calls |-> 0,
   inflight |-> 0, before |-> NoSaved]

\* No _make_request call has ended: nothing returned, nothing raised.
NoResult ==
  [kind |-> "none", type |-> "none", status_code |-> None,
   response_data |-> {}, data |-> {}, message |-> <<>>]

\* No _make_request call was made.
NoRequest ==
  [pc |-> "idle", retry_count |-> 0, seen |-> <<>>, sleeps |-> <<>>,
   result |-> NoResult]

\* The command has not given its caller anything.
NoOutcome == [kind |-> "none", type |-> "none", message |-> <<>>]

\* No control command was invoked.
NoCommand ==
  [cmd |-> "none", requests |-> 0, outcome |-> NoOutcome, signalled |-> {}]

\* A value that is not a mapping: a number, a string, null.
Leaf(n) == [isMap |-> FALSE, val |-> n, items |-> [k \in {} |-> 0]]

\* A mapping (dict) with the items f.
Map(f) == [isMap |-> TRUE, val |-> 0, items |-> f]

\* No lookup was applied.
NoLookup ==
  [fn |-> "none", data |-> Leaf(0), keys |-> <<>>, default |-> Leaf(0),
   result |-> Leaf(0)]

\* No heading was bucketed.
NoCompass == [fn |-> "none", heading |-> 0, direction |-> "none"]

\* No startup step was performed.
NoServer ==
  [fn |-> "none", plate |-> "", text |-> <<>>, outcome |-> "none",
   interval |-> [realtime |-> FALSE, minutes |-> 0], table |-> {},
   missing |-> "none", tools |-> {}]

\* No composite read was started.
NoComposite == [name |-> "none", left |-> 0, parts |-> {}, outcome |-> "none"]

\* _cache and _cache_time as the read of t found them at its freshness check.
Before(t) ==
  IF fetchId[t] = 0 THEN [cache |-> cache, cache_time |-> cache_time]
  ELSE saved[t]

\* The field read of t returns the snapshot s.
Returns(t, s) ==
  [kind |-> "value", err |-> "none", snap |-> s, fetched |-> fetchId[t],
   calls |-> calls[t], inflight |-> inflight[t], before |-> Before(t)]

\* The field read of t raises e.
Raises(t, e) ==
  [kind |-> "error", err |-> e, snap |-> 0, fetched |-> fetchId[t],
   calls |-> calls[t], inflight |-> inflight[t], before |-> Before(t)]

\* Telemetry.__init__
Init ==
  /\ interval \in Intervals
  /\ cache = None
  /\ cache_time = None
  /\ lock = 0
  /\ now = 0
  /\ pc = [t \in Threads |-> "idle"]
  /\ nfetch = 0
  /\ fetchId = [t \in Threads |-> 0]
  /\ calls = [t \in Threads |-> 0]
  /\ time_by = 0
  /\ saved = [t \in Threads |-> NoSaved]
  /\ inflight = [t \in Threads |-> 0]
  /\ waitedReqs = [t \in Threads |-> 0]
  /\ passedBy = [t \in Threads |-> 0]
  /\ returned = NoReturn
  /\ client = NoRequest
  /\ control = NoCommand
  /\ lookup = NoLookup
  /\ compass = NoCompass
  /\ server = NoServer
  /\ composite = NoComposite

\* The refresh whose upstream request is running under the lock, or 0.
RefreshInFlight ==
  IF lock # 0 /\ pc[lock] = "request" THEN fetchId[lock] ELSE 0

\* Field reads that may still issue a vehicle-state request.
PendingFieldReads ==
  Cardinality({t \in Threads : pc[t] \in {"acquire", "check"}})

\* _should_refresh with the comparison written >= : a read exactly at
\* fetchedAt + interval refreshes.
ShouldRefresh_ge ==
  IF interval.realtime THEN TRUE
  ELSE IF cache = None \/ cache_time = None THEN TRUE
  ELSE (now - cache_time) >= interval.minutes * SecondsPerMinute

\* _should_refresh without its 'realtime' branch taking effect once a
\* snapshot exists.
ShouldRefresh_norealtime ==
  IF cache = None \/ cache_time = None THEN TRUE
  ELSE IF interval.realtime THEN FALSE
  ELSE (now - cache_time) > interval.minutes * SecondsPerMinute

\* Telemetry._should_refresh
ShouldRefresh ==
  IF interval.realtime THEN TRUE
  ELSE IF cache = None \/ cache_time = None THEN TRUE
  ELSE (now - cache_time) > interval.minutes * SecondsPerMinute

\* AttemptOutcome with a 401 or 403 retried like a 429.
AttemptOutcome_authretry(resp, rc) ==
  IF resp.kind = "timeout"
    THEN IF rc < MAX_API_RETRIES THEN "retry" ELSE "TessieAPIError"
  ELSE IF resp.kind = "connection" THEN "TessieAPIError"
  ELSE IF resp.code \in {HTTP_UNAUTHORIZED, HTTP_FORBIDDEN, HTTP_RATE_LIMITED}
    THEN IF rc < MAX_API_RETRIES THEN "retry"
         ELSE IF resp.code = HTTP_RATE_LIMITED THEN "TessieAPIError"
         ELSE "AuthenticationError"
  ELSE IF resp.code >= 400 THEN "TessieAPIError"
  ELSE "ok"

\* AttemptOutcome with a timeout never retried.
AttemptOutcome_timeoutfails(resp, rc) ==
  IF resp.kind = "timeout" THEN "TessieAPIError"
  ELSE IF resp.kind = "connection" THEN "TessieAPIError"
  ELSE IF resp.code \in {HTTP_UNAUTHORIZED, HTTP_FORBIDDEN}
    THEN "AuthenticationError"
  ELSE IF resp.code = HTTP_RATE_LIMITED
    THEN IF rc < MAX_API_RETRIES THEN "retry" ELSE "TessieAPIError"
  ELSE IF resp.code >= 400 THEN "TessieAPIError"
  ELSE "ok"

\* A backoff that grows linearly with the retry count.
Pow_linear(b, e) == b * e

\* A backoff that grows with the square of the attempt number.
Pow_square(b, e) == (e + 1) * (e + 1)

RECURSIVE Pow(_, _)
Pow(b, e) == IF e = 0 THEN 1 ELSE b * Pow(b, e - 1)

\* TessieClient._make_request, one attempt: what the response of the attempt
\* made with retry_count = rc leads to.
AttemptOutcome(resp, rc) ==
  IF resp.kind = "timeout"
    THEN IF rc < MAX_API_RETRIES THEN "retry" ELSE "TessieAPIError"
  ELSE IF resp.kind = "connection" THEN "TessieAPIError"
  ELSE IF resp.code \in {HTTP_UNAUTHORIZED, HTTP_FORBIDDEN}
    THEN "AuthenticationError"
  ELSE IF resp.code = HTTP_RATE_LIMITED
    THEN IF rc < MAX_API_RETRIES THEN "retry" ELSE "TessieAPIError"
  ELSE IF resp.code >= 400 THEN "TessieAPIError"
  ELSE "ok"

\* TessieClient._make_request called with retry_count = rc, when the HTTP
\* attempts come back with resps[rc + 1], resps[rc + 2], ...: the outcome,
\* the number of HTTP attempts made, the seconds slept and the body.
RECURSIVE MakeRequest(_, _)
MakeRequest(resps, rc) ==
  LET resp == resps[rc + 1]
      out == AttemptOutcome(resp, rc) IN
    IF out = "retry"
      THEN LET rest == MakeRequest(resps, rc + 1) IN
             [rest EXCEPT !.slept = @ + Pow(RETRY_BACKOFF_FACTOR, rc)]
      ELSE [outcome |-> out, attempts |-> rc + 1, slept |-> 0,
            body |-> resp.body]

\* The sequences of responses one logical request can consume: every
\* response but the last is retried, the last one ends the request.
ResponseRuns ==
  {s \in UNION {[1..n -> Responses] : n \in 1..(MAX_API_RETRIES + 1)} :
     /\ \A i \in 1..(Len(s) - 1) : AttemptOutcome(s[i], i - 1) = "retry"
     /\ AttemptOutcome(s[Len(s)], Len(s) - 1) # "retry"}

\* What one logical request can end with: the outcome and the body of every
\* run of responses.
RequestOutcomes ==
  {[outcome |-> MakeRequest(s, 0).outcome, body |-> MakeRequest(s, 0).body] :
     s \in ResponseRuns}

\* TessieClient.get_vehicle_state and the check of its result in _fetch_data:
\* what the body of the vehicle list leads to.
VehicleStateOutcome(body) ==
  IF body = "no_vehicle" THEN "VehicleNotFoundError"
  ELSE IF body = "no_state" THEN "ValueError"
  ELSE "ok"

\* _fetch_data without its `with self._lock`: nobody waits.
LockFree_nolock == TRUE

\* `with self._lock` can be entered
LockFree == lock = 0

\* wall-clock time passes
Tick ==
  /\ now < MaxTicks * TickSeconds
  /\ now' = now + TickSeconds
  /\ UNCHANGED <<interval, cache, cache_time, lock, pc, nfetch, fetchId, calls,
                 time_by, saved, inflight, waitedReqs, passedBy>>
  /\ returned' = NoReturn
  /\ UNCHANGED callerVars

\* A caller starts a field read: _get_nested calls _fetch_data, which goes
\* to `with self._lock`.
CallField(t) ==
  /\ pc[t] = "idle"
  /\ nfetch + PendingFieldReads < MaxFetches
  /\ pc' = [pc EXCEPT ![t] = "acquire"]
  /\ inflight' = [inflight EXCEPT ![t] = RefreshInFlight]
  /\ UNCHANGED <<interval, cache, cache_time, lock, now, nfetch, fetchId,
                 calls, time_by, saved, waitedReqs, passedBy>>
  /\ returned' = NoReturn
  /\ UNCHANGED callerVars

\* A caller starts the specialised read o: get_battery_information and the
\* like call their endpoint of the client at once.
CallSpecial(t, o) ==
  /\ pc[t] = "idle"
  /\ o \in SpecialReads
  /\ pc' = [pc EXCEPT ![t] = "special"]
  /\ calls' = [calls EXCEPT ![t] = 1]
  /\ UNCHANGED <<interval, cache, cache_time, lock, now, nfetch, fetchId,
                 time_by, saved, inflight, waitedReqs, passedBy>>
  /\ returned' = NoReturn
  /\ UNCHANGED callerVars

\* A specialised read that goes through the cache: its answer is stored as
\* the snapshot's time of fetch.
SpecialCompletes_cached(t, r) ==
  /\ pc[t] = "special"
  /\ r.body \notin {"no_state", "no_vehicle"}
  /\ pc' = [pc EXCEPT ![t] = "idle"]
  /\ calls' = [calls EXCEPT ![t] = 0]
  /\ cache_time' = now
  /\ UNCHANGED <<interval, cache, lock, now, nfetch, fetchId,
                 time_by, saved, inflight, waitedReqs, passedBy>>
  /\ returned' = NoReturn
  /\ UNCHANGED callerVars

\* The specialised read's request ends with r; the text or the error goes
\* to the caller.
SpecialCompletes(t, r) ==
  /\ pc[t] = "special"
  /\ r.body \notin {"no_state", "no_vehicle"}
  /\ pc' = [pc EXCEPT ![t] = "idle"]
  /\ calls' = [calls EXCEPT ![t] = 0]
  /\ UNCHANGED <<interval, cache, cache_time, lock, now, nfetch, fetchId,
                 time_by, saved, inflight, waitedReqs, passedBy>>
  /\ returned' = NoReturn
  /\ UNCHANGED callerVars

\* _fetch_data: `with self._lock` is entered.  A waiter that MaxOvertakes
\* others have passed goes first, the longest-passed of them before the
\* rest.
Acquire(t) ==
  /\ pc[t] = "acquire"
  /\ LockFree
  /\ \A w \in Threads :
       w # t /\ pc[w] = "acquire" =>
         passedBy[w] < MaxOvertakes \/ passedBy[t] >= passedBy[w]
  /\ lock' = t
  /\ pc' = [pc EXCEPT ![t] = "check"]
  /\ passedBy' = [w \in Threads |->
                    IF w = t THEN 0
                    ELSE IF pc[w] = "acquire" THEN passedBy[w] + 1
                    ELSE passedBy[w]]
  /\ waitedReqs' = [waitedReqs EXCEPT ![t] = 0]
  /\ UNCHANGED <<interval, cache, cache_time, now, nfetch, fetchId, calls,
                 time_by, saved, inflight>>
  /\ returned' = NoReturn
  /\ UNCHANGED callerVars

\* The read of t is over: its bookkeeping is cleared.
Leave(t) ==
  /\ pc' = [pc EXCEPT ![t] = "idle"]
  /\ fetchId' = [fetchId EXCEPT ![t] = 0]
  /\ calls' = [calls EXCEPT ![t] = 0]
  /\ saved' = [saved EXCEPT ![t] = NoSaved]
  /\ inflight' = [inflight EXCEPT ![t] = 0]

\* The freshness decision taken before the lock instead of under it: a
\* reader that arrived during a refresh sticks to its decision to fetch.
MustFetch_decidedEarly(t) == inflight[t] # 0 \/ ShouldRefresh \/ cache = None

\* _fetch_data without the freshness check under the lock: whoever gets the
\* lock fetches.
MustFetch_nocheck(t) == TRUE

\* _fetch_data: the negation of
\* `not self._should_refresh() and self._cache is not None`
MustFetch(t) == ShouldRefresh \/ cache = None

\* _fetch_data with the lock held for the freshness check only: it is
\* released before get_vehicle_state is called.
Check_unlocked(t) ==
  /\ pc[t] = "check"
  /\ lock' = 0
  /\ IF ~MustFetch(t)
       THEN /\ returned' = Returns(t, cache)
            /\ Leave(t)
            /\ UNCHANGED nfetch
       ELSE /\ pc' = [pc EXCEPT ![t] = "request"]
            /\ returned' = NoReturn
            /\ nfetch' = nfetch + 1
            /\ fetchId' = [fetchId EXCEPT ![t] = nfetch + 1]
            /\ calls' = [calls EXCEPT ![t] = calls[t] + 1]
            /\ saved' = [saved EXCEPT ![t] =
                           [cache |-> cache, cache_time |-> cache_time]]
            /\ UNCHANGED inflight
  /\ UNCHANGED <<interval, cache, cache_time, now, time_by, waitedReqs,
                 passedBy>>
  /\ UNCHANGED callerVars

\* _fetch_data: the freshness check under the lock; either the cached
\* snapshot is returned (and the lock released) or get_vehicle_state is
\* called.
Check(t) ==
  /\ pc[t] = "check"
  /\ IF ~MustFetch(t)
       THEN /\ returned' = Returns(t, cache)
            /\ lock' = 0
            /\ Leave(t)
            /\ UNCHANGED nfetch
       ELSE /\ pc' = [pc EXCEPT ![t] = "request"]
            /\ returned' = NoReturn
            /\ nfetch' = nfetch + 1
            /\ fetchId' = [fetchId EXCEPT ![t] = nfetch + 1]
            /\ calls' = [calls EXCEPT ![t] = calls[t] + 1]
            /\ saved' = [saved EXCEPT ![t] =
                           [cache |-> cache, cache_time |-> cache_time]]
            /\ UNCHANGED <<lock, inflight>>
  /\ UNCHANGED <<interval, cache, cache_time, now, time_by, waitedReqs,
                 passedBy>>
  /\ UNCHANGED callerVars

\* Waiters see one more upstream request of the lock holder complete.
CountCompleted(t) ==
  [w \in Threads |->
     IF w # t /\ pc[w] = "acquire" THEN waitedReqs[w] + 1 ELSE waitedReqs[w]]

\* A failed refresh that is tried again at once, the lock still held.
RefreshFails_retry(t, e) ==
  /\ returned' = NoReturn
  /\ UNCHANGED <<lock, pc, fetchId, calls, saved, inflight, cache, cache_time,
                 time_by>>

\* A failed refresh that invalidates the snapshot.
RefreshFails_clear(t, e) ==
  /\ returned' = Raises(t, e)
  /\ lock' = 0
  /\ Leave(t)
  /\ cache' = None
  /\ cache_time' = None
  /\ UNCHANGED time_by

\* A failed refresh that falls back to the prior snapshot when there is one.
RefreshFails_stale(t, e) ==
  /\ returned' = IF saved[t].cache # None THEN Returns(t, saved[t].cache)
                 ELSE Raises(t, e)
  /\ lock' = 0
  /\ Leave(t)
  /\ UNCHANGED <<cache, cache_time, time_by>>

\* A failed refresh whose exception leaves _fetch_data with the lock held.
RefreshFails_keeplock(t, e) ==
  /\ returned' = Raises(t, e)
  /\ Leave(t)
  /\ UNCHANGED <<lock, cache, cache_time, time_by>>

\* What _fetch_data does when the refresh of t fails with e: the exception
\* leaves `with self._lock` and _get_nested, nothing is assigned.
RefreshFails(t, e) ==
  /\ returned' = Raises(t, e)
  /\ lock' = 0
  /\ Leave(t)
  /\ UNCHANGED <<cache, cache_time, time_by>>

\* _fetch_data: client.get_vehicle_state(self.vin) comes back, its request
\* having ended with r, with the vehicle state or with an error.
RequestCompletes(t, r) ==
  /\ pc[t] = "request"
  /\ waitedReqs' = CountCompleted(t)
  /\ IF r.outcome # "ok" THEN RefreshFails(t, r.outcome)
     ELSE IF VehicleStateOutcome(r.body) # "ok"
       THEN RefreshFails(t, VehicleStateOutcome(r.body))
     ELSE /\ pc' = [pc EXCEPT ![t] = "store_cache"]
          /\ returned' = NoReturn
          /\ UNCHANGED <<lock, saved, cache, cache_time, time_by,
                         fetchId, calls, inflight>>
  /\ UNCHANGED <<interval, now, nfetch, passedBy>>
  /\ UNCHANGED callerVars

\* _fetch_data with only the request under the lock: the lock is released
\* when the state arrives, the two assignments follow outside of it.
StoreCache_unlocked(t) ==
  /\ pc[t] = "store_cache"
  /\ cache' = fetchId[t]
  /\ lock' = 0
  /\ pc' = [pc EXCEPT ![t] = "store_time"]
  /\ UNCHANGED <<interval, cache_time, now, nfetch, fetchId, calls, time_by,
                 saved, inflight, waitedReqs, passedBy>>
  /\ returned' = NoReturn
  /\ UNCHANGED callerVars

\* _fetch_data: self._cache = state
StoreCache(t) ==
  /\ pc[t] = "store_cache"
  /\ cache' = fetchId[t]
  /\ pc' = [pc EXCEPT ![t] = "store_time"]
  /\ UNCHANGED <<interval, cache_time, lock, now, nfetch, fetchId, calls,
                 time_by, saved, inflight, waitedReqs, passedBy>>
  /\ returned' = NoReturn
  /\ UNCHANGED callerVars

\* _fetch_data returning the snapshot it held before the refresh.
StoreTime_old(t) ==
  /\ pc[t] = "store_time"
  /\ cache_time' = now
  /\ time_by' = fetchId[t]
  /\ returned' = Returns(t, saved[t].cache)
  /\ lock' = 0
  /\ Leave(t)
  /\ UNCHANGED <<interval, cache, now, nfetch, waitedReqs, passedBy>>
  /\ UNCHANGED callerVars

\* _fetch_data stamping the snapshot with the start of the clock instead of
\* the time of the fetch.
StoreTime_epoch(t) ==
  /\ pc[t] = "store_time"
  /\ cache_time' = 0
  /\ time_by' = fetchId[t]
  /\ returned' = Returns(t, cache)
  /\ lock' = 0
  /\ Leave(t)
  /\ UNCHANGED <<interval, cache, now, nfetch, waitedReqs, passedBy>>
  /\ UNCHANGED callerVars

\* _fetch_data: self._cache_time = time.time(); return self._cache
StoreTime(t) ==
  /\ pc[t] = "store_time"
  /\ cache_time' = now
  /\ time_by' = fetchId[t]
  /\ returned' = Returns(t, cache)
  /\ lock' = 0
  /\ Leave(t)
  /\ UNCHANGED <<interval, cache, now, nfetch, waitedReqs, passedBy>>
  /\ UNCHANGED callerVars

Next ==
  \/ Tick
  \/ \E t \in Threads : CallField(t)
  \/ \E t \in Threads : \E o \in SpecialReads : CallSpecial(t, o)
  \/ \E t \in Threads : \E r \in RequestOutcomes : SpecialCompletes(t, r)
  \/ \E t \in Threads : Acquire(t)
  \/ \E t \in Threads : Check(t)
  \/ \E t \in Threads : \E r \in RequestOutcomes : RequestCompletes(t, r)
  \/ \E t \in Threads : StoreCache(t)
  \/ \E t \in Threads : StoreTime(t)

Spec == Init /\ [][Next]_vars

\* Fair scheduling and upstream calls that end: a thread that can go on
\* does, every request comes back, and a thread that waits for the lock
\* gets it if it is free again and again.
FairSpec ==
  /\ Spec
  /\ \A t \in Threads :
       /\ SF_vars(Acquire(t))
       /\ WF_vars(Check(t))
       /\ WF_vars(\E r \in RequestOutcomes : RequestCompletes(t, r))
       /\ WF_vars(StoreCache(t))
       /\ WF_vars(StoreTime(t))

TypeOK ==
  /\ interval \in Intervals
  /\ cache \in {None} \cup (1..MaxFetches)
  /\ lock \in {0} \cup Threads

\* The TTL in seconds.
TtlSeconds == interval.minutes * SecondsPerMinute

\* The positions of _fetch_data from the start of the upstream fetch to the
\* assignment of _cache_time.
Refreshing == {"request", "store_cache", "store_time"}

\* C1: in TTL mode with a snapshot present, the freshness check of a field
\* read issues an upstream fetch if and only if now - fetchedAt is strictly
\* greater than the interval; at exactly fetchedAt + interval, or earlier,
\* the read returns the cached snapshot and no request is issued.
C1_FetchIffTtlExceeded ==
  [][\A t \in Threads :
       (/\ pc[t] = "check" /\ pc'[t] # "check"
        /\ ~interval.realtime /\ cache # None /\ cache_time # None)
       => /\ (nfetch' = nfetch + 1 /\ pc'[t] = "request" /\ calls'[t] = 1)
               <=> (now - cache_time > TtlSeconds)
          /\ (now - cache_time <= TtlSeconds)
               => /\ nfetch' = nfetch
                  /\ returned'.kind = "value"
                  /\ returned'.snap = cache
                  /\ returned'.calls = 0]_vars

\* A read has just been served from the cache exactly at fetchedAt + interval.
C1_Witness ==
  /\ ~interval.realtime
  /\ returned.kind = "value"
  /\ returned.calls = 0
  /\ cache_time # None
  /\ now - cache_time = TtlSeconds

\* C2: two refreshes of the instance never overlap: at most one thread is
\* between the start of the upstream fetch and the assignment of _cache and
\* _cache_time.
C2_RefreshesNeverOverlap ==
  Cardinality({t \in Threads : pc[t] \in Refreshing}) <= 1

\* One thread refreshes while two others wait at the lock.
C2_Witness ==
  /\ \E t \in Threads : pc[t] = "request"
  /\ Cardinality({t \in Threads : pc[t] = "acquire"}) >= 2

\* C3: whenever the lock is not held, _cache and _cache_time are both unset
\* or were both assigned by the same refresh.
C3_SnapshotAndTimeTogether ==
  lock = 0 =>
    \/ cache = None /\ cache_time = None
    \/ cache # None /\ cache_time # None /\ time_by = cache

\* A second refresh has replaced the snapshot and its time, the lock is free.
C3_Witness ==
  /\ lock = 0
  /\ cache = 2
  /\ time_by = 2
  /\ cache_time # None

\* The snapshot is within its TTL.
Fresh ==
  /\ ~interval.realtime
  /\ cache # None
  /\ cache_time # None
  /\ now - cache_time <= TtlSeconds

\* A field read ended in the last step.
Ended == returned.kind # "none"

\* C4 as claimed: a field read issued while a refresh is in flight returns
\* the snapshot installed by that refresh, under either policy.  Stated for
\* the reads that found that snapshot installed when they entered and that
\* returned a value.
C4_Original ==
  (/\ returned.kind = "value"
   /\ returned.inflight # 0
   /\ returned.before.cache = returned.inflight)
    => returned.snap = returned.inflight

\* C4 as amended: a field read issued while a refresh is in flight never
\* returns a snapshot older than that refresh's.  In TTL mode it returns the
\* installed snapshot without fetching when it finds it within the TTL, and
\* that is the in-flight refresh's snapshot when no later refresh replaced
\* it.  Under realtime it always performs its own fetch and returns its own
\* snapshot or its own error.
C4_NoOlderSnapshot ==
  (Ended /\ returned.inflight # 0) =>
    /\ returned.kind = "value" => returned.snap >= returned.inflight
    /\ interval.realtime =>
         /\ returned.calls = 1
         /\ returned.fetched > returned.inflight
         /\ returned.kind = "value" => returned.snap = returned.fetched
    /\ (~interval.realtime /\ returned.calls = 0) =>
         /\ returned.kind = "value"
         /\ returned.snap = returned.before.cache
         /\ returned.snap = cache
         /\ time_by = cache
         /\ Fresh
    /\ (~interval.realtime /\ returned.calls = 1) =>
         \/ returned.before.cache = None
         \/ now - returned.before.cache_time > TtlSeconds

\* In TTL mode a read that arrived during refresh 1 has just been served
\* snapshot 1 from the cache.
C4_Witness ==
  /\ ~interval.realtime
  /\ returned.kind = "value"
  /\ returned.inflight = 1
  /\ returned.snap = 1
  /\ returned.calls = 0

\* C5: under the realtime policy every field read issues exactly one
\* vehicle-state request, whatever the cache held.
C5_RealtimeOneFetchPerRead ==
  (interval.realtime /\ Ended) => returned.calls = 1 /\ returned.fetched # 0

\* A realtime read has fetched although the snapshot was assigned at this
\* very time.
C5_Witness ==
  /\ interval.realtime
  /\ returned.kind = "value"
  /\ returned.calls = 1
  /\ returned.before.cache # None
  /\ returned.before.cache_time = now

\* C6 as claimed: at most one HTTP call of the instance is outstanding, the
\* specialised reads included.
C6_Original ==
  Cardinality({t \in Threads : pc[t] \in {"request", "special"}}) <= 1

\* C6 as amended: at most one vehicle-state (refresh) request of the
\* instance is outstanding, and it is the lock holder's; the specialised
\* reads call the client outside the lock and may overlap with it.
C6_OneRefreshRequest ==
  /\ Cardinality({t \in Threads : pc[t] = "request"}) <= 1
  /\ \A t \in Threads : pc[t] = "request" => lock = t

\* A refresh request and two specialised reads are outstanding together.
C6_Witness ==
  /\ \E t \in Threads : pc[t] = "request"
  /\ Cardinality({t \in Threads : pc[t] = "special"}) >= 2

\* C7 as claimed: a read served from the cache without a refresh of its own
\* has not waited for the lock during another caller's upstream request.
C7_Original ==
  (returned.kind = "value" /\ returned.calls = 0) => returned.inflight = 0

\* C7 as amended: whenever the snapshot is within its TTL no refresh is in
\* progress, so a reader arriving then waits for no upstream request; the
\* lock can only be held for another reader's freshness check.
C7_FreshMeansNoRefresh ==
  Fresh => \A t \in Threads : pc[t] \notin Refreshing

\* The snapshot is fresh, one reader holds the lock for its check and
\* another one waits for it.
C7_Witness ==
  /\ Fresh
  /\ \E t \in Threads : pc[t] = "check"
  /\ \E t \in Threads : pc[t] = "acquire"

\* C8 as claimed: while a reader waits for the lock at most one upstream
\* request of other callers runs to completion.
C8_Original ==
  \A t \in Threads : waitedReqs[t] <= 1

\* C8 as amended: while a reader waits for the lock, at most one upstream
\* request completes per caller that holds the lock ahead of it: the one
\* holding it when the reader arrived and one for each caller that takes the
\* lock before it.
C8_OneRequestPerHolderAhead ==
  \A t \in Threads : waitedReqs[t] <= passedBy[t] + 1

\* A reader still waits after two upstream requests of others completed.
C8_Witness ==
  \E t \in Threads : pc[t] = "acquire" /\ waitedReqs[t] = 2

\* The errors a failed refresh ends with.
RefreshErrors ==
  {"AuthenticationError", "TessieAPIError", "VehicleNotFoundError",
   "ValueError"}

\* C9: after a failed refresh attempt _cache and _cache_time are what they
\* were before the attempt.
C9_FailedRefreshKeepsSnapshot ==
  returned.kind = "error" =>
    /\ cache = returned.before.cache
    /\ cache_time = returned.before.cache_time
    /\ (cache = None <=> cache_time = None)
    /\ cache # None => time_by = cache

\* A refresh has just failed on a missing vehicle state and the prior
\* snapshot is still there.
C9_Witness ==
  /\ returned.kind = "error"
  /\ returned.err = "ValueError"
  /\ cache # None
  /\ cache = returned.before.cache
  /\ cache_time = returned.before.cache_time

\* C10: a field read that required a refresh returns a value only when its
\* own refresh installed its snapshot; when the refresh failed the read
\* raises the error, also if a stale snapshot exists.
C10_FailedRefreshRaises ==
  (Ended /\ returned.calls > 0) =>
    IF cache = returned.fetched /\ time_by = returned.fetched
      THEN returned.kind = "value" /\ returned.snap = returned.fetched
      ELSE returned.kind = "error" /\ returned.err \in RefreshErrors

\* In TTL mode a read has just raised although a stale snapshot exists.
C10_Witness ==
  /\ ~interval.realtime
  /\ returned.kind = "error"
  /\ returned.calls = 1
  /\ returned.before.cache # None
  /\ cache = returned.before.cache

\* ------------------------------------------------------------------------
\* The control commands and the HTTP attempts of the Gateway client
\* ------------------------------------------------------------------------

\* Control.vin
Vin == "5YJ3E1EA1KF123456"

\* The commands wired to the Gateway and the placeholders.
GatewayCommands == {"honk_horn", "flash_lights"}
ComingSoonCommands ==
  {"lock_doors", "unlock_doors", "start_climate", "stop_climate"}

\* The JSON object a command endpoint answers with: its "result" field
\* ("absent" when the object has none) and its "reason" field.
Reasons == {"absent", "vehicle asleep", ""}
CommandBodies ==
  [result : {"true", "false", "absent"}, reason : Reasons]

\* The body that comes with an error status.
ErrorBody == [result |-> "absent", reason |-> "upstream failure"]

\* What one HTTP attempt of a command can come back with.
CommandResponses ==
  {[kind |-> "status", code |-> HTTP_OK, body |-> b] : b \in CommandBodies}
  \cup
  {[kind |-> "status", code |-> c, body |-> ErrorBody] :
      c \in {HTTP_UNAUTHORIZED, HTTP_FORBIDDEN, HTTP_NOT_FOUND,
             HTTP_RATE_LIMITED, HTTP_SERVER_ERROR}}
  \cup
  {[kind |-> "timeout", code |-> 0, body |-> ErrorBody],
   [kind |-> "connection", code |-> 0, body |-> ErrorBody]}

\* TessieAPIError.__init__: the status code goes into the message when one
\* is given.
TessieAPIError(message, status_code, response_data) ==
  [kind |-> "raise", type |-> "TessieAPIError",
   status_code |-> status_code, response_data |-> response_data,
   data |-> {},
   message |->
     IF status_code # None
       THEN <<"Tessie API error", "HTTP " \o ToString(status_code)>>
              \o message
       ELSE <<"Tessie API error">> \o message]

\* AuthenticationError(message): the class adds no field of its own.
AuthenticationError(message) ==
  [kind |-> "raise", type |-> "AuthenticationError", status_code |-> None,
   response_data |-> {}, data |-> {}, message |-> message]

\* str(e) of the HTTPError that response.raise_for_status() raises.
HTTPErrorText(resp) == <<ToString(resp.code) \o " Error">>

\* TessieClient._make_request: what the attempt that ends the call gives
\* its caller, when it was made with retry_count = rc and came back with resp.
RequestResult(resp, rc) ==
  IF resp.kind = "timeout"
    THEN TessieAPIError(<<"Request timeout after "
                            \o ToString(MAX_API_RETRIES) \o " retries">>,
                        None, {})
  ELSE IF resp.kind = "connection"
    THEN TessieAPIError(<<"Request failed", "connection error">>, None, {})
  ELSE IF resp.code \in {HTTP_UNAUTHORIZED, HTTP_FORBIDDEN}
    THEN AuthenticationError(<<"Authentication failed",
                               "HTTP " \o ToString(resp.code),
                               "Please check your TESSIE_TOKEN.">>)
  ELSE IF resp.code = HTTP_RATE_LIMITED
    THEN TessieAPIError(<<"Rate limit exceeded. Please try again later.">>,
                        resp.code, {})
  ELSE IF resp.code >= 400
    THEN TessieAPIError(<<"Request failed">> \o HTTPErrorText(resp), None, {})
  ELSE [kind |-> "return", type |-> "dict", status_code |-> None,
        response_data |-> {}, data |-> {resp.body}, message |-> <<>>]

\* VehicleCommandError.__init__ with the reason left out of the message.
VehicleCommandError_noreason(command, reason, vin) ==
  [kind |-> "raise", type |-> "VehicleCommandError",
   message |-> <<"Failed to execute command", command>>
               \o (IF vin # "" THEN <<"VIN", vin>> ELSE <<>>)]

\* VehicleCommandError.__init__: the message names the command, the reason
\* when it is not empty, and the VIN.
VehicleCommandError(command, reason, vin) ==
  [kind |-> "raise", type |-> "VehicleCommandError",
   message |-> <<"Failed to execute command", command>>
               \o (IF reason # "" THEN <<reason>> ELSE <<>>)
               \o (IF vin # "" THEN <<"VIN", vin>> ELSE <<>>)]

\* The texts of honk_horn and flash_lights.
SuccessText(c) ==
  IF c = "honk_horn" THEN "Successfully honked the horn!"
  ELSE "Successfully flashed the lights!"
FailedText(c) ==
  IF c = "honk_horn" THEN "Failed to honk horn" ELSE "Failed to flash lights"
ErrorText(c) ==
  IF c = "honk_horn" THEN "Error honking horn" ELSE "Error flashing lights"

\* Control.honk_horn / flash_lights: what the command gives its caller when
\* the client's method came back with res.
CommandOutcome(c, res) ==
  IF res.kind = "return"
    THEN LET response == CHOOSE b \in res.data : TRUE
             error == IF response.reason = "absent" THEN "Unknown error"
                      ELSE response.reason IN
           IF response.result = "true"
             THEN [kind |-> "return", type |-> "str",
                   message |-> <<SuccessText(c)>>]
             ELSE VehicleCommandError(c, error, Vin)
  ELSE IF res.type = "TessieAPIError"
    THEN [kind |-> "return", type |-> "str",
          message |-> <<FailedText(c)>> \o res.message]
  ELSE [kind |-> "return", type |-> "str",
        message |-> <<ErrorText(c)>> \o res.message]

\* The command did not do what was asked.
Failure(c, out) == ~(out.kind = "return" /\ out.message = <<SuccessText(c)>>)

\* Control._coming_soon
ComingSoonMessage(action) ==
  <<"Control action", action, "is not enabled yet",
    "Control endpoints will ship soon.">>

\* A placeholder command that goes to the Gateway before answering.
ComingSoon_request(c) ==
  /\ client.pc # "http"
  /\ c \in ComingSoonCommands
  /\ client' = [NoRequest EXCEPT !.pc = "http"]
  /\ control' = [control EXCEPT
       !.cmd = c, !.requests = 1,
       !.outcome = [kind |-> "return", type |-> "str",
                    message |-> ComingSoonMessage(c)]]
  /\ UNCHANGED <<lookup, compass, server, composite, telemetryVars>>

\* Control.lock_doors, unlock_doors, start_climate, stop_climate: the
\* placeholder message is returned.
ComingSoon(c) ==
  /\ client.pc # "http"
  /\ c \in ComingSoonCommands
  /\ control' = [control EXCEPT
       !.cmd = c, !.requests = 0,
       !.outcome = [kind |-> "return", type |-> "str",
                    message |-> ComingSoonMessage(c)]]
  /\ UNCHANGED <<client, lookup, compass, server, composite, telemetryVars>>

\* Control.honk_horn / flash_lights up to the first HTTP attempt:
\* self.client.honk_horn(self.vin) calls _make_request with retry_count 0.
InvokeCommand(c) ==
  /\ client.pc # "http"
  /\ c \in GatewayCommands
  /\ control' = [control EXCEPT
       !.cmd = c, !.requests = 1, !.outcome = NoOutcome]
  /\ client' = [NoRequest EXCEPT !.pc = "http"]
  /\ UNCHANGED <<lookup, compass, server, composite, telemetryVars>>

\* A command that sends its request again when the vehicle rejected it.
RequestEnds_reissue(resp, rc) ==
  LET res == RequestResult(resp, rc) IN
    IF res.kind = "return" /\ resp.body.result # "true"
         /\ control.requests < 2
      THEN /\ client' = [client EXCEPT
                 !.retry_count = 0, !.seen = Append(@, resp)]
           /\ control' = [control EXCEPT !.requests = @ + 1]
      ELSE /\ client' = [client EXCEPT
                 !.pc = "done", !.seen = Append(@, resp), !.result = res]
           /\ control' = [control EXCEPT
                 !.outcome = CommandOutcome(control.cmd, res),
                 !.signalled =
                   IF Failure(control.cmd, CommandOutcome(control.cmd, res))
                     THEN @ \cup {CommandOutcome(control.cmd, res).kind}
                     ELSE @]

\* The attempt made with retry_count = rc ends the _make_request call, and
\* with it the command: the rest of honk_horn / flash_lights runs.
RequestEnds(resp, rc) ==
  LET res == RequestResult(resp, rc) IN
    /\ client' = [client EXCEPT
          !.pc = "done", !.seen = Append(@, resp), !.result = res]
    /\ control' = [control EXCEPT
          !.outcome = CommandOutcome(control.cmd, res),
          !.signalled =
            IF Failure(control.cmd, CommandOutcome(control.cmd, res))
              THEN @ \cup {CommandOutcome(control.cmd, res).kind}
              ELSE @]

\* _make_request with one retry counter per kind of failure: a timeout is
\* counted against the timeouts seen, a 429 against the 429s seen.
Attempt_perkind(resp) ==
  LET same == Cardinality({i \in DOMAIN client.seen :
                             client.seen[i].kind = resp.kind})
  IN /\ client.pc = "http"
     /\ IF AttemptOutcome(resp, same) = "retry"
          THEN /\ client' = [client EXCEPT
                    !.retry_count = @ + 1,
                    !.seen = Append(@, resp),
                    !.sleeps = Append(@, Pow(RETRY_BACKOFF_FACTOR, same))]
               /\ UNCHANGED control
          ELSE RequestEnds(resp, same)
     /\ UNCHANGED <<lookup, compass, server, composite, telemetryVars>>

\* TessieClient._make_request: the HTTP attempt comes back with resp; on a
\* 429 or a timeout with retries left it sleeps and calls itself with
\* retry_count + 1.
Attempt(resp) ==
  /\ client.pc = "http"
  /\ IF AttemptOutcome(resp, client.retry_count) = "retry"
       THEN /\ client' = [client EXCEPT
                 !.retry_count = @ + 1,
                 !.seen = Append(@, resp),
                 !.sleeps = Append(@, Pow(RETRY_BACKOFF_FACTOR,
                                          client.retry_count))]
            /\ UNCHANGED control
       ELSE RequestEnds(resp, client.retry_count)
  /\ UNCHANGED <<lookup, compass, server, composite, telemetryVars>>

ControlNext ==
  \/ \E c \in GatewayCommands : InvokeCommand(c)
  \/ \E c \in ComingSoonCommands : ComingSoon(c)
  \/ \E resp \in CommandResponses : Attempt(resp)

ControlSpec == Init /\ [][ControlNext]_vars

\* Every HTTP attempt comes back, with a response or with the timeout that
\* requests raises after self.timeout seconds, and every sleep ends.
FairControlSpec ==
  ControlSpec /\ WF_vars(\E resp \in CommandResponses : Attempt(resp))

\* A response that _make_request answers with a sleep and another attempt
\* while retries are left.
Retryable(resp) ==
  \/ resp.kind = "timeout"
  \/ resp.kind = "status" /\ resp.code = HTTP_RATE_LIMITED

RECURSIVE SumSeq(_)
SumSeq(q) == IF q = <<>> THEN 0 ELSE Head(q) + SumSeq(Tail(q))

\* The text s occurs in the message.
Contains(message, s) ==
  s = "" \/ \E i \in DOMAIN message : message[i] = s

\* The response the last attempt came back with.
LastSeen == client.seen[Len(client.seen)]

\* C11: a 401 or 403 response makes _make_request raise AuthenticationError
\* on that same attempt, whatever the retry count: it is the last response
\* of the call, no sleep and no further attempt follows it.
C11_AuthFailsAtOnce ==
  \A i \in DOMAIN client.seen :
    (/\ client.seen[i].kind = "status"
     /\ client.seen[i].code \in {HTTP_UNAUTHORIZED, HTTP_FORBIDDEN})
    => /\ i = Len(client.seen)
       /\ client.pc = "done"
       /\ client.result.kind = "raise"
       /\ client.result.type = "AuthenticationError"
       /\ Len(client.sleeps) = i - 1
       /\ client.retry_count = i - 1

\* A 403 on the third attempt (retry count 2) has ended the call.
C11_Witness ==
  /\ client.pc = "done"
  /\ Len(client.seen) = 3
  /\ LastSeen.code = HTTP_FORBIDDEN
  /\ client.retry_count = 2
  /\ client.result.type = "AuthenticationError"

\* C12: a 429 is retried at most 3 times, after sleeps of 1 s, 2 s and 4 s;
\* three 429 followed by a 200 return the 200's body after 7 s of waiting,
\* and a 429 on the 4th attempt raises the rate-limit error.
C12_RateLimitBackoff ==
  /\ Len(client.sleeps) <= 3
  /\ \A i \in DOMAIN client.sleeps : client.sleeps[i] = <<1, 2, 4>>[i]
  /\ \A i \in DOMAIN client.seen :
       (client.seen[i].kind = "status"
          /\ client.seen[i].code = HTTP_RATE_LIMITED)
       => IF i <= 3
            THEN Len(client.sleeps) >= i
            ELSE /\ i = 4
                 /\ Len(client.seen) = 4
                 /\ client.pc = "done"
                 /\ client.result.kind = "raise"
                 /\ client.result.type = "TessieAPIError"
                 /\ client.result.status_code = HTTP_RATE_LIMITED
                 /\ Contains(client.result.message,
                             "Rate limit exceeded. Please try again later.")
                 /\ client.sleeps = <<1, 2, 4>>
  /\ (/\ client.pc = "done"
      /\ Len(client.seen) = 4
      /\ \A i \in 1..3 : client.seen[i].code = HTTP_RATE_LIMITED
      /\ LastSeen.code = HTTP_OK)
     => /\ client.result.kind = "return"
        /\ client.result.data = {LastSeen.body}
        /\ SumSeq(client.sleeps) >= 7

\* Three 429 and then a 200: the body has been returned after 7 s.
C12_Witness ==
  /\ client.pc = "done"
  /\ Len(client.seen) = 4
  /\ \A i \in 1..3 : client.seen[i].code = HTTP_RATE_LIMITED
  /\ LastSeen.code = HTTP_OK
  /\ client.result.kind = "return"
  /\ SumSeq(client.sleeps) = 7

\* C13: a timeout is retried like a 429, at most 3 times after waits of
\* 1 s, 2 s and 4 s; a timeout on the 4th attempt raises the timeout error
\* and is not retried.
C13_TimeoutBackoff ==
  \A i \in DOMAIN client.seen :
    client.seen[i].kind = "timeout"
    => IF i <= 3
         THEN /\ Len(client.sleeps) >= i
              /\ client.sleeps[i] = <<1, 2, 4>>[i]
              /\ client.pc = "http" => client.retry_count >= i
         ELSE /\ i = 4
              /\ Len(client.seen) = 4
              /\ client.pc = "done"
              /\ client.result.kind = "raise"
              /\ client.result.type = "TessieAPIError"
              /\ Contains(client.result.message,
                          "Request timeout after 3 retries")
              /\ client.sleeps = <<1, 2, 4>>

\* Four timeouts in a row have ended the call with the timeout error.
C13_Witness ==
  /\ client.pc = "done"
  /\ Len(client.seen) = 4
  /\ \A i \in 1..4 : client.seen[i].kind = "timeout"
  /\ client.result.type = "TessieAPIError"

\* C14 as claimed: a status that is neither 2xx nor 401, 403 or 429 ends the
\* call on that attempt with a TessieAPIError that carries the response's
\* status code and its body.
C14_Original ==
  (/\ client.pc = "done"
   /\ LastSeen.kind = "status"
   /\ LastSeen.code \notin {HTTP_OK, HTTP_UNAUTHORIZED, HTTP_FORBIDDEN,
                            HTTP_RATE_LIMITED})
  => /\ client.result.kind = "raise"
     /\ client.result.type = "TessieAPIError"
     /\ Len(client.sleeps) = Len(client.seen) - 1
     /\ client.result.status_code = LastSeen.code
     /\ LastSeen.body \in client.result.response_data

\* C17: when the response of honk_horn or flash_lights has no true result,
\* the command raises VehicleCommandError whose message contains the
\* response's reason, or 'Unknown error' when the response has no reason.
C17_ReasonInMessage ==
  (/\ control.cmd \in GatewayCommands
   /\ client.pc = "done"
   /\ client.result.kind = "return"
   /\ LastSeen.body.result # "true")
  => /\ control.outcome.kind = "raise"
     /\ control.outcome.type = "VehicleCommandError"
     /\ IF LastSeen.body.reason = "absent"
          THEN Contains(control.outcome.message, "Unknown error")
          ELSE Contains(control.outcome.message, LastSeen.body.reason)

\* flash_lights was answered {result: false, reason: "vehicle asleep"} and
\* the error raised names that reason.
C17_Witness ==
  /\ control.cmd = "flash_lights"
  /\ client.pc = "done"
  /\ LastSeen.body = [result |-> "false", reason |-> "vehicle asleep"]
  /\ LastSeen.code = HTTP_OK
  /\ control.outcome.type = "VehicleCommandError"
  /\ Contains(control.outcome.message, "vehicle asleep")

\* C18: honk_horn and flash_lights call the client once per invocation;
\* every response that was followed by another HTTP attempt was a 429 or a
\* timeout, so a result-false response is never followed by one.
C18_OneRequestPerCommand ==
  control.cmd \in GatewayCommands =>
    /\ control.requests = 1
    /\ Len(client.seen) <= MAX_API_RETRIES + 1
    /\ \A i \in DOMAIN client.seen :
         (i < Len(client.seen) \/ client.pc = "http")
           => Retryable(client.seen[i])

\* honk_horn was rejected by the vehicle on its first attempt and has ended.
C18_Witness ==
  /\ control.cmd = "honk_horn"
  /\ client.pc = "done"
  /\ Len(client.seen) = 1
  /\ LastSeen.code = HTTP_OK
  /\ LastSeen.body.result = "false"
  /\ control.requests = 1
  /\ control.outcome.kind = "raise"

\* C19: lock_doors, unlock_doors, start_climate and stop_climate return the
\* 'not enabled yet' message; the step makes no request and changes nothing
\* of the client or of the telemetry accessor.
C19_PlaceholdersTouchNothing ==
  [][(control'.cmd \in ComingSoonCommands /\ control' # control)
       => /\ client' = client
          /\ UNCHANGED telemetryVars
          /\ UNCHANGED <<lookup, compass, server, composite>>
          /\ control'.requests = 0
          /\ control'.signalled = control.signalled
          /\ control'.outcome.kind = "return"
          /\ Contains(control'.outcome.message, "is not enabled yet")]_vars

\* lock_doors has answered after a Gateway command, and the record of that
\* command's request is as it was.
C19_Witness ==
  /\ control.cmd = "lock_doors"
  /\ control.requests = 0
  /\ client.pc = "done"
  /\ Contains(control.outcome.message, "is not enabled yet")

\* C20 as claimed: the failures of honk_horn and flash_lights are all
\* signalled the same way, all returned as a message or all raised.
C20_Original ==
  Cardinality(control.signalled) <= 1

\* ------------------------------------------------------------------------
\* The nested lookup of _get_nested and utils.safe_get
\* ------------------------------------------------------------------------

\* The keys of the mappings and the values stored at their leaves.
Keys == {"a", "b"}
Scalars == {1}

\* The values nested at most d mappings deep.
RECURSIVE ValuesOfDepth(_)
ValuesOfDepth(d) ==
  IF d = 0 THEN {Leaf(v) : v \in Scalars}
  ELSE LET below == ValuesOfDepth(d - 1) IN
         below \cup
         {Map(f) : f \in UNION {[S -> below] : S \in SUBSET Keys}}

\* The key paths of at most MaxPath keys.
Paths == UNION {[1..n -> Keys] : n \in 0..MaxPath}

\* The defaults: a scalar that is stored nowhere, and the values of depth 1
\* (the empty mapping and mappings with items among them).
Defaults == {Leaf(0)} \cup ValuesOfDepth(1)

\* dict.get(key, default)
DictGet(data, key, default) ==
  IF key \in DOMAIN data.items THEN data.items[key] ELSE default

\* utils.safe_get: for each key, data = data.get(key, default) when data is
\* a dict, else return default; return data after the last key.
RECURSIVE SafeGet(_, _, _)
SafeGet(data, keys, default) ==
  IF keys = <<>> THEN data
  ELSE IF data.isMap
    THEN SafeGet(DictGet(data, Head(keys), default), Tail(keys), default)
  ELSE default

\* Telemetry._get_nested: the same loop, over the data _fetch_data returned.
RECURSIVE GetNested(_, _, _)
GetNested(data, keys, default) ==
  IF keys = <<>> THEN data
  ELSE IF data.isMap
    THEN GetNested(DictGet(data, Head(keys), default), Tail(keys), default)
  ELSE default

\* safe_get is applied
CallSafeGet(data, keys, default) ==
  /\ lookup.fn = "none"
  /\ lookup' = [fn |-> "safe_get", data |-> data, keys |-> keys,
                default |-> default,
                result |-> SafeGet(data, keys, default)]
  /\ UNCHANGED <<client, control, compass, server, composite, telemetryVars>>

\* _get_nested is applied to a snapshot, which is a mapping
CallGetNested(data, keys, default) ==
  /\ lookup.fn = "none"
  /\ data.isMap
  /\ lookup' = [fn |-> "_get_nested", data |-> data, keys |-> keys,
                default |-> default,
                result |-> GetNested(data, keys, default)]
  /\ UNCHANGED <<client, control, compass, server, composite, telemetryVars>>

LookupNext ==
  \/ \E data \in ValuesOfDepth(MaxDepth) : \E keys \in Paths :
       \E default \in Defaults : CallSafeGet(data, keys, default)
  \/ \E data \in ValuesOfDepth(MaxDepth) : \E keys \in Paths :
       \E default \in Defaults : CallGetNested(data, keys, default)

LookupSpec == Init /\ [][LookupNext]_vars

\* The value stored at the path, if every key of the path is present and
\* every value traversed is a mapping: a set with that value, else empty.
RECURSIVE PathValue(_, _)
PathValue(data, keys) ==
  IF keys = <<>> THEN {data}
  ELSE IF ~data.isMap \/ Head(keys) \notin DOMAIN data.items THEN {}
  ELSE PathValue(data.items[Head(keys)], Tail(keys))

\* C15 as claimed: the lookup returns the supplied default whenever a key
\* of the path is absent or a value traversed is not a mapping, and the
\* value stored at the path otherwise.
C15_Original ==
  lookup.fn # "none" =>
    IF PathValue(lookup.data, lookup.keys) = {}
      THEN lookup.result = lookup.default
      ELSE lookup.result \in PathValue(lookup.data, lookup.keys)

\* ------------------------------------------------------------------------
\* The compass bucketing of get_location and utils.get_compass_direction
\* ------------------------------------------------------------------------

\* The integer headings.
Headings == 0..MaxHeading

\* A division that drops the fraction instead of rounding.
RoundHalfEven_floor(n, d) == n \div d

\* Python's round(n / d) for integers n >= 0 and d > 0: to the nearest
\* integer, a tie to the even one.
RoundHalfEven(n, d) ==
  LET q == n \div d
      r == n % d IN
    IF 2 * r < d THEN q
    ELSE IF 2 * r > d THEN q + 1
    ELSE IF q % 2 = 0 THEN q ELSE q + 1

\* utils.get_compass_direction
CompassDirection(heading) ==
  LET idx == RoundHalfEven(heading, DEGREES_PER_DIRECTION)
               % Len(COMPASS_DIRECTIONS) IN
    COMPASS_DIRECTIONS[idx + 1]

\* Telemetry.get_location: its own list of directions, 45 and 8.
LocationCardinal(heading) ==
  LET directions == <<"N", "NE", "E", "SE", "S", "SW", "W", "NW">>
      idx == RoundHalfEven(heading, 45) % 8 IN
    directions[idx + 1]

\* get_compass_direction is applied
CallCompassDirection(heading) ==
  /\ compass.fn = "none"
  /\ compass' = [fn |-> "get_compass_direction", heading |-> heading,
                 direction |-> CompassDirection(heading)]
  /\ UNCHANGED <<client, control, lookup, server, composite, telemetryVars>>

\* get_location formats the heading that _get_heading returned
CallGetLocation(heading) ==
  /\ compass.fn = "none"
  /\ compass' = [fn |-> "get_location", heading |-> heading,
                 direction |-> LocationCardinal(heading)]
  /\ UNCHANGED <<client, control, lookup, server, composite, telemetryVars>>

CompassNext ==
  \/ \E heading \in Headings : CallCompassDirection(heading)
  \/ \E heading \in Headings : CallGetLocation(heading)

CompassSpec == Init /\ [][CompassNext]_vars

\* C16 as claimed: N for heading 0, N for heading 44, NE for heading 46 and
\* N for heading 360, in both functions.
C16_Original ==
  compass.fn # "none" =>
    /\ compass.heading = 0 => compass.direction = "N"
    /\ compass.heading = 44 => compass.direction = "N"
    /\ compass.heading = 46 => compass.direction = "NE"
    /\ compass.heading = 360 => compass.direction = "N"

\* C16 as amended: both functions report the sector whose centre, a
\* multiple of 45 degrees, is nearest to the heading, wrapping at 360:
\* N for 0 and up to 22, NE from 23 to 67 and so for 44 and 46, N for 360.
C16_NearestSector ==
  compass.fn # "none" =>
    LET h == compass.heading % 360 IN
      /\ compass.heading = 0 => compass.direction = "N"
      /\ compass.heading = 44 => compass.direction = "NE"
      /\ compass.heading = 46 => compass.direction = "NE"
      /\ compass.heading = 360 => compass.direction = "N"
      /\ compass.direction = "N" <=> (h <= 22 \/ h >= 338)
      /\ compass.direction = "NE" <=> (23 <= h /\ h <= 67)
      /\ \A k \in 0..7 :
           compass.direction = COMPASS_DIRECTIONS[k + 1]
             <=> (h - 45 * k + 22) % 360 <= 44
      /\ CompassDirection(compass.heading) = LocationCardinal(compass.heading)

\* get_location has reported NE for the heading 44.
C16_Witness ==
  /\ compass.fn = "get_location"
  /\ compass.heading = 44
  /\ compass.direction = "NE"

\* The seconds an HTTP attempt lasts at least: one that timed out lasted the
\* whole timeout passed to requests.
LeastSeconds(resp) == IF resp.kind = "timeout" THEN DEFAULT_API_TIMEOUT ELSE 0

\* The seconds the attempts of the call lasted at least.
RECURSIVE LeastAttemptSeconds(_)
LeastAttemptSeconds(seen) ==
  IF seen = <<>> THEN 0
  ELSE LeastSeconds(Head(seen)) + LeastAttemptSeconds(Tail(seen))

\* The least and the most time that passed inside the _make_request call
\* so far, backoff sleeps included, when an attempt that is answered is
\* answered within the timeout.
LeastElapsed == LeastAttemptSeconds(client.seen) + SumSeq(client.sleeps)
MostElapsed ==
  Len(client.seen) * DEFAULT_API_TIMEOUT + SumSeq(client.sleeps)

\* C25 as claimed: the time spent inside one Gateway request, backoff
\* sleeps counted, never exceeds timeout * (1 + retries), 120 seconds.
C25_Original ==
  LeastElapsed <= DEFAULT_API_TIMEOUT * (1 + MAX_API_RETRIES)

\* C25: the time spent inside one Gateway request never exceeds
\* timeout * (1 + retries) plus the backoff sleeps of 1, 2 and 4 seconds,
\* 127 seconds, and a call whose four attempts all time out takes that long.
C25_TimeBound ==
  /\ MostElapsed <= DEFAULT_API_TIMEOUT * (1 + MAX_API_RETRIES) + 1 + 2 + 4
  /\ (client.pc = "done" /\ Len(client.seen) = MAX_API_RETRIES + 1
        /\ \A i \in DOMAIN client.seen : client.seen[i].kind = "timeout")
       => LeastElapsed = DEFAULT_API_TIMEOUT * (1 + MAX_API_RETRIES) + 1 + 2 + 4

\* Four timeouts in a row: the call has taken 127 seconds.
C25_Witness ==
  /\ client.pc = "done"
  /\ Len(client.seen) = 4
  /\ \A i \in 1..4 : client.seen[i].kind = "timeout"
  /\ LeastElapsed = 127
  /\ MostElapsed = 127

\* C27: whatever mix of 429 responses and timeouts comes back, one
\* _make_request call makes at most MAX_API_RETRIES + 1 HTTP attempts, the
\* two kinds of failure sharing one retry counter, and it always ends, with
\* a result or with an error.
C27_SharedRetryBudget ==
  /\ [](/\ Len(client.seen) <= MAX_API_RETRIES + 1
        /\ client.retry_count = Len(client.sleeps)
        /\ client.retry_count <= MAX_API_RETRIES
        /\ client.retry_count =
             Cardinality({i \in DOMAIN client.seen :
                            /\ Retryable(client.seen[i])
                            /\ (i < Len(client.seen) \/ client.pc = "http")})
        /\ client.pc = "http" => Len(client.seen) = client.retry_count
        /\ client.pc = "done" =>
             /\ Len(client.seen) = client.retry_count + 1
             /\ client.result.kind \in {"return", "raise"})
  /\ (client.pc = "http" ~> client.pc = "done")

\* A 429, a timeout, a 429 and a timeout: the fourth attempt was the last.
C27_Witness ==
  /\ client.pc = "done"
  /\ Len(client.seen) = 4
  /\ client.seen[1].kind = "status" /\ client.seen[1].code = HTTP_RATE_LIMITED
  /\ client.seen[2].kind = "timeout"
  /\ client.seen[3].kind = "status" /\ client.seen[3].code = HTTP_RATE_LIMITED
  /\ client.seen[4].kind = "timeout"
  /\ client.result.kind = "raise"

\* The state of the cache as _should_refresh tells it: EMPTY while no
\* snapshot with its time of fetch is installed, STALE when the next read
\* has to refresh it, FRESH when the next read is served from it.
CacheState ==
  IF cache = None \/ cache_time = None THEN "EMPTY"
  ELSE IF ShouldRefresh THEN "STALE"
  ELSE "FRESH"

\* The step ends a refresh with success: _cache_time is assigned.
RefreshSucceeds == returned'.kind = "value" /\ returned'.fetched # 0

\* C26 as claimed: the cache state changes only from EMPTY to FRESH and from
\* STALE to FRESH, by a successful refresh, and from FRESH to STALE, by
\* age; a failed refresh leaves it as it is, and it never returns to EMPTY.
C26_Original ==
  [][/\ CacheState' # CacheState =>
          <<CacheState, CacheState'>> \in
            {<<"EMPTY", "FRESH">>, <<"FRESH", "STALE">>, <<"STALE", "FRESH">>}
     /\ RefreshSucceeds => CacheState' = "FRESH"
     /\ returned'.kind = "error" => CacheState' = CacheState
     /\ CacheState # "EMPTY" => CacheState' # "EMPTY"]_vars

\* C26: with a TTL the cache state changes only from EMPTY to FRESH and from
\* STALE to FRESH, by a successful refresh, and from FRESH to STALE, by the
\* passing of time; under realtime a successful refresh leaves the snapshot
\* due for refresh at once (EMPTY to STALE, STALE to STALE) and it is never
\* FRESH.  Under both policies a failed refresh leaves the state, _cache and
\* _cache_time as they are, and an installed snapshot is never removed.
C26_CacheStateEdges ==
  [][/\ CacheState' # CacheState =>
          IF interval.realtime
            THEN <<CacheState, CacheState'>> = <<"EMPTY", "STALE">>
            ELSE <<CacheState, CacheState'>> \in
                   {<<"EMPTY", "FRESH">>, <<"FRESH", "STALE">>,
                    <<"STALE", "FRESH">>}
     /\ RefreshSucceeds =>
          CacheState' = IF interval.realtime THEN "STALE" ELSE "FRESH"
     /\ CacheState' \in {"FRESH", "STALE"} /\ CacheState = "EMPTY" =>
          RefreshSucceeds
     /\ <<CacheState, CacheState'>> = <<"STALE", "FRESH">> => RefreshSucceeds
     /\ <<CacheState, CacheState'>> = <<"FRESH", "STALE">> => now' > now
     /\ returned'.kind = "error" =>
          /\ CacheState' = CacheState
          /\ cache' = cache
          /\ cache_time' = cache_time
     /\ CacheState # "EMPTY" => CacheState' # "EMPTY"]_vars

\* With a TTL, the read that just returned found snapshot 1 stale and
\* installed snapshot 2: the cache went from EMPTY to FRESH, to STALE and
\* back to FRESH.
C26_Witness ==
  /\ ~interval.realtime
  /\ CacheState = "FRESH"
  /\ returned.kind = "value"
  /\ returned.fetched = 2
  /\ returned.before.cache = 1
  /\ cache = 2

\* C29: with a TTL, however many readers find the cache empty or stale at
\* the same time, the refresh that succeeds is the last vehicle-state fetch
\* issued for as long as its snapshot is within the TTL: the readers that
\* waited for the lock check the freshness again under it and are given the
\* new snapshot without a fetch of their own.
C29_OneFetchForAll ==
  Fresh =>
    /\ nfetch = time_by
    /\ cache = time_by
    /\ \A t \in Threads : pc[t] \notin Refreshing /\ fetchId[t] = 0
    /\ (returned.kind = "value" /\ returned.inflight # 0
          /\ returned.inflight = time_by) =>
         /\ returned.calls = 0
         /\ returned.fetched = 0
         /\ returned.snap = returned.inflight

\* Three readers found the cache empty: the first fetched snapshot 1, the
\* second, which waited for the lock during that fetch, has just been given
\* snapshot 1 without a fetch, and the third still waits; one fetch was
\* issued in all.
C29_Witness ==
  /\ Fresh
  /\ nfetch = 1
  /\ returned.kind = "value"
  /\ returned.calls = 0
  /\ returned.snap = 1
  /\ returned.inflight = 1
  /\ returned.before.cache = 1
  /\ \E t \in Threads : pc[t] = "acquire" /\ inflight[t] = 1

\* The positions of a thread inside `with self._lock`.
Locked == {"check", "request", "store_cache", "store_time"}

C23_SpecialReadsBypassCache ==
  /\ [](\A t \in Threads : pc[t] = "special" => calls[t] = 1 /\ lock # t)
  /\ [][\A t \in Threads :
          (pc[t] = "special" \/ pc'[t] = "special") /\ pc'[t] # pc[t] =>
            /\ cache' = cache
            /\ cache_time' = cache_time
            /\ lock' = lock
            /\ nfetch' = nfetch
            /\ pc[t] = "special" => pc'[t] = "idle" /\ calls'[t] = 0]_vars

\* A specialised read is under way while another thread holds the lock for
\* its refresh of a snapshot that is there.
C23_Witness ==
  \E t, u \in Threads :
    /\ pc[t] = "special"
    /\ calls[t] = 1
    /\ lock = u
    /\ pc[u] = "request"
    /\ cache # None

\* ---------------------------------------------------------------------------
\* Startup: the tool tables, the dispatch tables and the configuration.
\* ---------------------------------------------------------------------------

\* The names of TELEMETRY_TOOL_SPECS, in their order.
TELEMETRY_TOOL_SPECS ==
  <<"get_battery_information", "get_battery_health_information",
    "get_location_information", "get_tire_pressure_information",
    "get_vehicle_status", "get_in_service", "get_battery_heater_on",
    "get_battery_level", "get_charge_limit_soc", "get_charge_port_door_open",
    "get_charging_state", "get_minutes_to_full_charge",
    "get_charging_complete_at", "get_energy_remaining",
    "get_lifetime_energy_used", "get_allow_cabin_overheat_protection",
    "get_outside_temp", "get_is_climate_on",
    "get_supports_fan_only_cabin_overheat_protection",
    "get_seat_heater_left", "get_seat_heater_right",
    "get_seat_heater_rear_left", "get_seat_heater_rear_center",
    "get_seat_heater_rear_right", "get_side_mirror_heaters",
    "get_steering_wheel_heater", "get_wiper_blade_heater", "get_location",
    "get_power", "get_speed", "get_shift_state", "get_active_route",
    "get_sentry_mode", "get_display_name", "get_all_heater_status",
    "get_battery_summary">>

\* The names of CONTROL_TOOL_SPECS, in their order.
CONTROL_TOOL_SPECS ==
  <<"lock_doors", "unlock_doors", "honk_horn", "flash_lights",
    "start_climate", "stop_climate", "set_temperature">>

\* The public methods of a Telemetry object.
TelemetryMethods ==
  {"get_battery_information", "get_battery_health_information",
   "get_location_information", "get_tire_pressure_information",
   "get_vehicle_status", "get_in_service", "get_battery_heater_on",
   "get_battery_level", "get_charge_limit_soc", "get_charge_port_door_open",
   "get_charging_state", "get_minutes_to_full_charge",
   "get_charging_complete_at", "get_energy_remaining",
   "get_lifetime_energy_used", "get_allow_cabin_overheat_protection",
   "get_outside_temp", "get_is_climate_on",
   "get_supports_fan_only_cabin_overheat_protection",
   "get_seat_heater_left", "get_seat_heater_right",
   "get_seat_heater_rear_left", "get_seat_heater_rear_center",
   "get_seat_heater_rear_right", "get_side_mirror_heaters",
   "get_steering_wheel_heater", "get_wiper_blade_heater", "get_location",
   "get_power", "get_speed", "get_shift_state", "get_active_route",
   "get_sentry_mode", "get_display_name", "get_all_heater_status",
   "get_battery_summary"}

\* The public methods of a Control object.
ControlMethods ==
  {"lock_doors", "unlock_doors", "honk_horn", "flash_lights",
   "start_climate", "stop_climate"}

\* The names of a sequence of tool specs.
SpecNames(specs) == {specs[i] : i \in DOMAIN specs}

\* The loop of build_telemetry_dispatch and build_control_dispatch: the names
\* are looked up on the service in order; the first one the service lacks
\* raises AttributeError and no table is returned.
BuildDispatch(specs, methods) ==
  LET lacking == {i \in DOMAIN specs : specs[i] \notin methods}
      first == CHOOSE i \in lacking : \A j \in lacking : i <= j
  IN IF lacking # {}
       THEN [outcome |-> "raise", missing |-> specs[first], table |-> {}]
       ELSE [outcome |-> "return", missing |-> "none",
             table |-> {[name |-> specs[i], method |-> specs[i]] :
                          i \in DOMAIN specs}]

\* The input schema every entry of TELEMETRY_TOOLS is built with.
TELEMETRY_TOOLS ==
  {[name |-> TELEMETRY_TOOL_SPECS[i], properties |-> {}, required |-> {}] :
     i \in DOMAIN TELEMETRY_TOOL_SPECS}

\* The properties of the input schema in the comprehension of CONTROL_TOOLS.
ControlProperties ==
  {[name |-> "temperature", type |-> "number"],
   [name |-> "wait_for_completion", type |-> "boolean"]}

\* The input schema every entry of CONTROL_TOOLS is built with: the properties
\* are the same for every name, the required list depends on the name.
CONTROL_TOOLS ==
  {[name |-> CONTROL_TOOL_SPECS[i],
    properties |-> ControlProperties,
    required |-> IF CONTROL_TOOL_SPECS[i] = "set_temperature"
                   THEN {"temperature"} ELSE {}] :
     i \in DOMAIN CONTROL_TOOL_SPECS}

\* The characters the texts of TELEMETRY_INTERVAL are made of.
Digits == {"0", "1", "5"}
Chars == Digits \cup {"-", "+", " ", "x"}

\* The spellings of realtime tried, and one with a blank before it.
RealtimeTexts ==
  {<<"r", "e", "a", "l", "t", "i", "m", "e">>,
   <<"R", "E", "A", "L", "T", "I", "M", "E">>,
   <<"R", "e", "a", "l", "T", "i", "m", "e">>,
   <<" ", "r", "e", "a", "l", "t", "i", "m", "e">>}

\* The texts TELEMETRY_INTERVAL is set to.
ConfigTexts == UNION {[1..n -> Chars] : n \in 0..MaxText} \cup RealtimeTexts

\* str.lower on one character.
LowerChar(c) ==
  CASE c = "R" -> "r" [] c = "E" -> "e" [] c = "A" -> "a" [] c = "L" -> "l"
    [] c = "T" -> "t" [] c = "I" -> "i" [] c = "M" -> "m" [] OTHER -> c

\* str.lower.
Lower(text) == [i \in 1..Len(text) |-> LowerChar(text[i])]

\* The text without the blanks around it, as int() reads it.
RECURSIVE Strip(_)
Strip(text) ==
  IF text = <<>> THEN <<>>
  ELSE IF Head(text) = " " THEN Strip(Tail(text))
  ELSE IF text[Len(text)] = " " THEN Strip(SubSeq(text, 1, Len(text) - 1))
  ELSE text

\* The number a digit stands for.
DigitValue(c) == CASE c = "0" -> 0 [] c = "1" -> 1 [] c = "5" -> 5

\* The number a sequence of digits stands for.
RECURSIVE DigitsValue(_)
DigitsValue(ds) ==
  IF ds = <<>> THEN 0
  ELSE DigitsValue(SubSeq(ds, 1, Len(ds) - 1)) * 10 + DigitValue(ds[Len(ds)])

\* int(text): blanks around the number are dropped, one sign may lead, and
\* at least one digit and nothing else must follow; anything else is a
\* ValueError.
ParseInt(text) ==
  LET t == Strip(text)
      signed == t # <<>> /\ Head(t) \in {"-", "+"}
      ds == IF signed THEN Tail(t) ELSE t
  IN IF ds # <<>> /\ \A i \in 1..Len(ds) : ds[i] \in Digits
       THEN [ok |-> TRUE,
             value |-> IF signed /\ Head(t) = "-"
                         THEN 0 - DigitsValue(ds) ELSE DigitsValue(ds)]
       ELSE [ok |-> FALSE, value |-> 0]

\* The plates of the environment and of config.py; the empty text is no plate.
Plates == {"", "34ABC123"}

\* get_config: the plate is VEHICLE_PLATE, else config.PLATE, and the process
\* exits when neither is there; the interval is the text of
\* TELEMETRY_INTERVAL ("5" when unset): realtime in any case, else int() of
\* it, and the process exits on a ValueError.
GetConfig(envPlate, config, env) ==
  LET interval_str == IF env = {} THEN <<"5">> ELSE CHOOSE t \in env : TRUE
      parsed == ParseInt(interval_str)
      plate == IF envPlate # "" THEN envPlate ELSE CHOOSE c \in config : TRUE
  IN /\ server.fn = "none"
     /\ server' =
          IF envPlate = "" /\ config = {}
            THEN [NoServer EXCEPT !.fn = "get_config", !.outcome = "exit"]
          ELSE IF Lower(interval_str) = <<"r", "e", "a", "l", "t", "i", "m", "e">>
            THEN [NoServer EXCEPT !.fn = "get_config", !.plate = plate,
                                  !.text = interval_str, !.outcome = "return",
                                  !.interval = [realtime |-> TRUE, minutes |-> 0]]
          ELSE IF parsed.ok
            THEN [NoServer EXCEPT !.fn = "get_config", !.plate = plate,
                                  !.text = interval_str, !.outcome = "return",
                                  !.interval = [realtime |-> FALSE,
                                                minutes |-> parsed.value]]
          ELSE [NoServer EXCEPT !.fn = "get_config", !.plate = plate,
                                !.text = interval_str, !.outcome = "exit"]
     /\ UNCHANGED <<client, control, lookup, compass, composite, telemetryVars>>

\* build_telemetry_dispatch(telemetry).
BuildTelemetryDispatch ==
  LET built == BuildDispatch(TELEMETRY_TOOL_SPECS, TelemetryMethods)
  IN /\ server.fn = "none"
     /\ server' = [NoServer EXCEPT !.fn = "build_telemetry_dispatch",
                                   !.outcome = built.outcome,
                                   !.missing = built.missing,
                                   !.table = built.table]
     /\ UNCHANGED <<client, control, lookup, compass, composite, telemetryVars>>

\* build_control_dispatch(control).
BuildControlDispatch ==
  LET built == BuildDispatch(CONTROL_TOOL_SPECS, ControlMethods)
  IN /\ server.fn = "none"
     /\ server' = [NoServer EXCEPT !.fn = "build_control_dispatch",
                                   !.outcome = built.outcome,
                                   !.missing = built.missing,
                                   !.table = built.table]
     /\ UNCHANGED <<client, control, lookup, compass, composite, telemetryVars>>

\* The tool list: TELEMETRY_TOOLS and CONTROL_TOOLS.
ListTools ==
  /\ server.fn = "none"
  /\ server' = [NoServer EXCEPT !.fn = "list_tools", !.outcome = "return",
                                !.tools = TELEMETRY_TOOLS \cup CONTROL_TOOLS]
  /\ UNCHANGED <<client, control, lookup, compass, composite, telemetryVars>>

StartupNext ==
  \/ \E envPlate \in Plates, config \in {{}} \cup {{p} : p \in Plates \ {""}},
        env \in {{}} \cup {{t} : t \in ConfigTexts} :
       GetConfig(envPlate, config, env)
  \/ BuildTelemetryDispatch
  \/ BuildControlDispatch
  \/ ListTools

StartupSpec == Init /\ [][StartupNext]_vars

\* C21: both dispatch builders complete and bind every name of their tool
\* specs, set_temperature included, to exactly one operation of the service.
C21_Original ==
  /\ server.fn = "build_telemetry_dispatch" =>
       /\ server.outcome = "return"
       /\ \A n \in SpecNames(TELEMETRY_TOOL_SPECS) :
            Cardinality({b \in server.table : b.name = n}) = 1
  /\ server.fn = "build_control_dispatch" =>
       /\ server.outcome = "return"
       /\ \A n \in SpecNames(CONTROL_TOOL_SPECS) :
            Cardinality({b \in server.table : b.name = n}) = 1

\* C22: in the tool list set_temperature declares a required numeric
\* temperature and an optional boolean wait_for_completion, and every other
\* tool declares no properties and nothing required.
C22_Original ==
  server.fn = "list_tools" =>
    \A tool \in server.tools :
      IF tool.name = "set_temperature"
        THEN /\ tool.properties = ControlProperties
             /\ tool.required = {"temperature"}
        ELSE /\ tool.properties = {}
             /\ tool.required = {}

\* The text is a positive whole number of minutes.
PositiveMinutes(text) == ParseInt(text).ok /\ ParseInt(text).value > 0

\* C24: get_config returns only for an interval that is realtime in any case
\* or a positive whole number of minutes, and exits the process for every
\* other value, zero and negative numbers included.
C24_Original ==
  (server.fn = "get_config" /\ server.plate # "") =>
    /\ server.outcome = "return" =>
         server.interval.realtime \/ server.interval.minutes > 0
    /\ ~(PositiveMinutes(server.text)
         \/ Lower(server.text) = <<"r", "e", "a", "l", "t", "i", "m", "e">>) =>
         server.outcome = "exit"

\* ---------------------------------------------------------------------------
\* Composite reads: public reads that put several fields into one string.
\* ---------------------------------------------------------------------------

\* The composite reads and the number of fields each one gets, every field
\* by a _get_nested call of its own; the number depends on what the first
\* field says (heater off or on, a route or none).
CompositeReads ==
  {"get_location", "get_sentry_mode", "get_steering_wheel_heater",
   "get_active_route", "get_all_heater_status", "get_battery_summary"}

FieldCounts(name) ==
  CASE name = "get_location" -> {3}
    [] name = "get_sentry_mode" -> {2}
    [] name = "get_steering_wheel_heater" -> {1, 2}
    [] name = "get_active_route" -> {1, 4}
    [] name = "get_all_heater_status" -> {8, 9}
    [] name = "get_battery_summary" -> {5}

\* What the vehicle-state request of a refresh ends with.
FetchEnds == {"ok", "TessieAPIError"}

\* One whole _fetch_data call, from taking the lock to releasing it, as the
\* other callers see it: the cached snapshot is kept when it is fresh, else
\* a vehicle-state request is issued and, if it succeeds, its snapshot and
\* the time are stored.  `end` is what the request ends with.
FetchData(end) ==
  /\ MustFetch(1) => nfetch < MaxFetches
  /\ IF ~MustFetch(1)
       THEN UNCHANGED <<cache, cache_time, nfetch, time_by>>
       ELSE /\ nfetch' = nfetch + 1
            /\ IF end = "ok"
                 THEN /\ cache' = nfetch + 1
                      /\ cache_time' = now
                      /\ time_by' = nfetch + 1
                 ELSE UNCHANGED <<cache, cache_time, time_by>>
  /\ UNCHANGED <<interval, lock, now, pc, fetchId, calls, saved, inflight,
                 waitedReqs, passedBy, returned>>
  /\ UNCHANGED <<client, control, lookup, compass, server>>

\* A caller starts the composite read `name`, which will get n fields.
CallComposite(name, n) ==
  /\ composite.left = 0
  /\ n \in FieldCounts(name)
  /\ composite' = [name |-> name, left |-> n, parts |-> {}, outcome |-> "none"]
  /\ UNCHANGED <<client, control, lookup, compass, server, telemetryVars>>

\* The composite read gets its next field: _get_nested calls _fetch_data and
\* looks the field up in what it returns; an exception of the refresh ends
\* the read, and the last field ends it with the string.
ReadField(end) ==
  /\ composite.left > 0
  /\ FetchData(end)
  /\ composite' =
       IF MustFetch(1) /\ end # "ok"
         THEN [composite EXCEPT !.left = 0, !.outcome = "raise"]
         ELSE [composite EXCEPT
                 !.left = @ - 1,
                 !.parts = @ \cup {IF MustFetch(1) THEN nfetch + 1 ELSE cache},
                 !.outcome = IF composite.left = 1 THEN "return" ELSE "none"]

\* Another caller reads a field between two fields of the composite read.
OtherRead(end) ==
  /\ FetchData(end)
  /\ UNCHANGED composite

\* Wall-clock time passes during the composite read.
CompositeTick ==
  /\ now < MaxTicks * TickSeconds
  /\ now' = now + TickSeconds
  /\ UNCHANGED <<interval, cache, cache_time, lock, pc, nfetch, fetchId, calls,
                 time_by, saved, inflight, waitedReqs, passedBy, returned>>
  /\ UNCHANGED callerVars

CompositeNext ==
  \/ \E name \in CompositeReads : \E n \in FieldCounts(name) :
       CallComposite(name, n)
  \/ \E end \in FetchEnds : ReadField(end)
  \/ \E end \in FetchEnds : OtherRead(end)
  \/ CompositeTick

CompositeSpec == Init /\ [][CompositeNext]_vars

\* C30 as claimed: the fields of the string a composite read returns all
\* come from one snapshot.
C30_Original ==
  composite.outcome = "return" => Cardinality(composite.parts) = 1

====
